---- MODULE Spec2Model ----
(***************************************************************************)
(* Model of pyminekeeper (miners_keeper.py): a supervisor that launches a  *)
(* miner, lets it settle, polls its liveness and hashrate, kills it and    *)
(* starts it again, with a cold-start script sequence when the previous    *)
(* launch was recent.                                                      *)
(*                                                                         *)
(* Time is counted in whole seconds.  The supervisor reads the clock only  *)
(* as the difference datetime.now() - last_start_time, so the model keeps  *)
(* that difference (elapsed) instead of the two absolute times; before the *)
(* first launch elapsed counts from the supervisor's start.                *)
(***************************************************************************)
EXTENDS Integers, Sequences, FiniteSets, TLC

(* ---------------- configuration of miner_keeper ---------------- *)
NumColdStartScripts == 3
colds_start_sleep_interval == 16
target_hashrate == 11500
hot_restart_interval_minutes == 5
max_run_time_minutes == 40
initial_sleep_time_minutes == 2
check_interval_seconds == 20
process_exit_time_seconds == 5

\* datetime.timedelta.seconds is the seconds part of the difference: the
\* days part is held apart in timedelta.days.
SecondsPerDay == 86400

(* ---------------- bounds of the model ---------------- *)
\* the polls and probes of a miner are followed step by step through the
\* first MaxElapsed seconds after its launch
MaxElapsed == 240
\* the loop guard is also entered at every later time up to LateElapsed
\* seconds after the launch, and around one day after it
LateElapsed == 2450
\* a sleep of n seconds returns after n .. n + MaxJitter seconds
MaxJitter == 1
\* number of miners the supervisor launches
MaxLaunches == 2
\* largest days part of an elapsed time given to the cold/hot decision
MaxDays == 2

(* ---------------- Python values ---------------- *)
\* A value is a record [t, v]: t is the type tag, v the payload.  Two values
\* with the same tag have payloads of the same shape; a str holds the
\* sequence of its characters.
PyNone == [t |-> "none", v |-> 0]
PyNum(n) == [t |-> "num", v |-> n]
PyStr(s) == [t |-> "str", v |-> s]
PyList(s) == [t |-> "list", v |-> s]
PyDict(f) == [t |-> "dict", v |-> f]
\* A number is a PyNum when it is whole (whether Python holds it as an int or
\* as a float), a PyDec when it is not, and PyHuge when it is an int beyond
\* the range of the floats.
\* the number m / 1000^k, for k >= 1 and an m that is no multiple of 1000
PyDec(m, k) == [t |-> "dec", v |-> <<m, k>>]
PyMilli(m) == PyDec(m, 1)
\* a positive int so large that its quotient by 1000 is beyond the largest
\* float (about 1.8e308)
PyHuge == [t |-> "huge", v |-> 0]
\* the float that d divisions by 1000 make of the float PyDec(m, k), d >= 1:
\* each division rounds, so this is m / 1000^(k + d) to within the last
\* places of a float, and need not be the float PyDec(m, k + d)
PyQuotient(m, k, d) == [t |-> "quotient", v |-> <<m, k, d>>]
\* the float nan, which json.loads makes of the token NaN: it counts as true
\* and every order comparison with it is False
PyNaN == [t |-> "nan", v |-> 0]

IsNumber(x) == x.t \in {"num", "dec", "quotient", "huge", "nan"}

\* x > 0 for a number x
Positive(x) ==
    CASE x.t = "num" -> x.v > 0
      [] x.t = "dec" -> x.v[1] > 0
      [] x.t = "quotient" -> x.v[1] > 0
      [] x.t = "huge" -> TRUE
      [] x.t = "nan" -> FALSE

\* x < n and x <= n for a number x and a whole number n.  A PyDec is no whole
\* number, so it is below n or equal to it iff its floor is below n; the
\* rounding of a PyQuotient is far smaller than its distance from a whole
\* number for the m and k of this model.
LessThan(x, n) ==
    CASE x.t = "num" -> x.v < n
      [] x.t = "dec" -> (x.v[1] \div (1000 ^ x.v[2])) < n
      [] x.t = "quotient" -> (x.v[1] \div (1000 ^ (x.v[2] + x.v[3]))) < n
      [] x.t = "huge" -> FALSE
      [] x.t = "nan" -> FALSE

LessOrEqual(x, n) ==
    CASE x.t = "num" -> x.v <= n
      [] x.t = "dec" -> (x.v[1] \div (1000 ^ x.v[2])) < n
      [] x.t = "quotient" -> (x.v[1] \div (1000 ^ (x.v[2] + x.v[3]))) < n
      [] x.t = "huge" -> FALSE
      [] x.t = "nan" -> FALSE

\* bool(x) as Python evaluates it in "if not x"
Truthy(x) ==
    CASE x.t = "none" -> FALSE
      [] x.t = "num" -> x.v # 0
      [] x.t = "dec" -> TRUE
      [] x.t = "quotient" -> TRUE
      [] x.t = "huge" -> TRUE
      [] x.t = "nan" -> TRUE
      [] x.t = "str" -> Len(x.v) > 0
      [] x.t = "list" -> Len(x.v) > 0
      [] x.t = "dict" -> DOMAIN x.v # {}

\* the outcome of a call: a returned value or a raised exception
Return(x) == [raised |-> FALSE, val |-> x]
Raise == [raised |-> TRUE, val |-> PyNone]


(* ---------------- Health prober ---------------- *)
\* d.get(key, default) on a dict
DictGet(d, key, default) == IF key \in DOMAIN d.v THEN d.v[key] ELSE default

\* x.get(key, default): only a dict has the method (AttributeError otherwise)
Get(x, key, default) ==
    IF x.t = "dict" THEN Return(DictGet(x, key, default)) ELSE Raise

\* x[0]: the first element of a list, the first character of a str;
\* IndexError when empty, KeyError on a dict decoded from JSON (its keys are
\* strings), TypeError on None and on a number
Subscript0(x) ==
    CASE x.t = "list" -> IF Len(x.v) > 0 THEN Return(x.v[1]) ELSE Raise
      [] x.t = "str" -> IF Len(x.v) > 0 THEN Return(PyStr(<<x.v[1]>>)) ELSE Raise
      [] OTHER -> Raise

\* What urllib.request.urlopen(url, timeout=6) and the body it reads come to:
\*   t = "urlerror": urlopen raises (refused, timeout, HTTP error status)
\*   t = "http": a response with status code `code`; `json` says whether
\*       json.loads accepts the cleaned body, and `doc` is what it returns.
UrlError == [t |-> "urlerror", code |-> 0, json |-> FALSE, doc |-> PyNone]
HttpResponse(code, json, doc) == [t |-> "http", code |-> code, json |-> json, doc |-> doc]

get_json_data(response) ==
    IF response.t = "urlerror" THEN Raise
    ELSE IF response.code # 200 THEN Return(PyNone)
    ELSE IF ~response.json THEN Raise
    ELSE Return(response.doc)

\* mutant: no test of the first element
parse_xmrstak_hashrate_any_first(status_data) ==
    LET r1 == Get(status_data, "hashrate", PyNone) IN
    IF r1.raised THEN PyNum(-1)
    ELSE IF ~Truthy(r1.val) THEN PyNum(-1)
    ELSE LET r2 == Get(r1.val, "total", PyNone) IN
         IF r2.raised THEN PyNum(-1)
         ELSE LET r3 == Subscript0(r2.val) IN
              IF r3.raised THEN PyNum(-1)
              ELSE r3.val

parse_xmrstak_hashrate(status_data) ==
    LET r1 == Get(status_data, "hashrate", PyNone) IN
    IF r1.raised THEN PyNum(-1)
    ELSE IF ~Truthy(r1.val) THEN PyNum(-1)
    ELSE LET r2 == Get(r1.val, "total", PyNone) IN
         IF r2.raised THEN PyNum(-1)
         ELSE LET r3 == Subscript0(r2.val) IN
              IF r3.raised THEN PyNum(-1)
              ELSE IF ~Truthy(r3.val) THEN PyNum(-1)
              ELSE r3.val

\* hashrate / 1000 for a number hashrate: true division.  The quotient of a
\* whole number is the float nearest to it, which is the float its decimal
\* denotes; the quotient of a float that is no whole number is rounded from a
\* rounded number; OverflowError for an int whose quotient is beyond the
\* floats.
DivideBy1000(x) ==
    CASE x.t = "num" -> IF x.v % 1000 = 0 THEN Return(PyNum(x.v \div 1000))
                        ELSE Return(PyDec(x.v, 1))
      [] x.t = "dec" -> Return(PyQuotient(x.v[1], x.v[2], 1))
      [] x.t = "quotient" -> Return(PyQuotient(x.v[1], x.v[2], x.v[3] + 1))
      [] x.t = "huge" -> Raise
      [] x.t = "nan" -> Return(PyNaN)

\* hashrate // 1000
FloorDivideBy1000(x) ==
    CASE x.t = "num" -> Return(PyNum(x.v \div 1000))
      [] x.t = "dec" -> Return(PyNum(x.v[1] \div (1000 ^ (x.v[2] + 1))))
      [] x.t = "quotient" ->
            Return(PyNum(x.v[1] \div (1000 ^ (x.v[2] + x.v[3] + 1))))
      [] x.t = "huge" -> Return(PyHuge)
      [] x.t = "nan" -> Return(PyNaN)

\* mutant: floor division, "//" for "/"
parse_castxmr_hashrate_floor(status_data) ==
    LET r == Get(status_data, "total_hash_rate", PyNum(-1)) IN
    IF r.raised THEN Raise
    ELSE IF ~IsNumber(r.val) THEN Raise
    ELSE IF Positive(r.val) THEN FloorDivideBy1000(r.val)
    ELSE Return(r.val)

\* AttributeError when status_data is no dict, TypeError when the field
\* cannot be compared with 0, OverflowError from the division
parse_castxmr_hashrate(status_data) ==
    LET r == Get(status_data, "total_hash_rate", PyNum(-1)) IN
    IF r.raised THEN Raise
    ELSE IF ~IsNumber(r.val) THEN Raise
    ELSE IF Positive(r.val) THEN DivideBy1000(r.val)
    ELSE Return(r.val)

cast_xmr_api == [type |-> "JSON", parse_function |-> "parse_castxmr_hashrate"]
xmr_stak_api == [type |-> "JSON", parse_function |-> "parse_xmrstak_hashrate"]
hashrate_api_params == xmr_stak_api

\* api_params['parse_function'](miner_status_data)
parse_function(api_params, miner_status_data) ==
    CASE api_params.parse_function = "parse_xmrstak_hashrate" ->
            Return(parse_xmrstak_hashrate(miner_status_data))
      [] api_params.parse_function = "parse_castxmr_hashrate" ->
            parse_castxmr_hashrate(miner_status_data)

\* an exception that leaves the function called
PyException == [t |-> "exception", v |-> 0]

\* mutant: the parser called outside the try
get_hashrate_parser_unguarded(api_params, response) ==
    LET fetched == IF api_params.type = "JSON" THEN get_json_data(response)
                   ELSE Return(PyNone) IN
    IF fetched.raised THEN PyNum(-1)
    ELSE IF ~Truthy(fetched.val) THEN PyNum(-1)
    ELSE LET parsed == parse_function(api_params, fetched.val) IN
         IF parsed.raised THEN PyException ELSE parsed.val

get_hashrate(api_params, response) ==
    LET fetched == IF api_params.type = "JSON" THEN get_json_data(response)
                   ELSE Return(PyNone) IN
    IF fetched.raised THEN PyNum(-1)
    ELSE IF ~Truthy(fetched.val) THEN PyNum(-1)
    ELSE LET parsed == parse_function(api_params, fetched.val) IN
         IF parsed.raised THEN PyNum(-1) ELSE parsed.val

(* ---------------- Restart policy and run time ---------------- *)
\* (datetime.datetime.now() - last_start_time).seconds for a difference of
\* `elapsed` whole seconds
timedelta_seconds(elapsed) == elapsed % SecondsPerDay

run_time_ended(elapsed, max_run_time) ==
    LET current_run_time_minutes == timedelta_seconds(elapsed) * 60 IN
    IF current_run_time_minutes > max_run_time THEN TRUE ELSE FALSE

\* mutant: the threshold taken in seconds, the "* 60" forgotten
needs_cold_start_no_minutes(last_start, elapsed) ==
    IF last_start = "None" THEN TRUE
    ELSE IF timedelta_seconds(elapsed) < hot_restart_interval_minutes THEN TRUE
    ELSE FALSE

\* the cold/hot decision at the top of the supervisor's loop
needs_cold_start(last_start, elapsed) ==
    IF last_start = "None" THEN TRUE
    ELSE IF timedelta_seconds(elapsed) < hot_restart_interval_minutes * 60 THEN TRUE
    ELSE FALSE

\* the classification of a probe: if current_hashrate <= 0 / elif
\* current_hashrate < target_hashrate / else; "TypeError" when the value cannot
\* be compared with a number
classify_hashrate(value) ==
    IF ~IsNumber(value) THEN "TypeError"
    ELSE IF LessOrEqual(value, 0) THEN "fail"
    ELSE IF LessThan(value, target_hashrate) THEN "fail"
    ELSE "ok"


(* ---------------- Supervisor state ---------------- *)
VARIABLES
    pc,                 \* the statement of miner_keeper the supervisor is at
    elapsed,            \* now - last_start_time, in seconds
    last_start_time,    \* "None" before the first launch, "set" after
    cold_start_needed,
    script_idx,         \* position of the for loop in cold_start_scripts
    hashrate_ok,
    current_hashrate,
    miner_process,      \* pid of the handle start_miner returned last, 0 = none
    running,            \* pids of the miner process trees that are running
    taskkill,           \* pids targeted by a TASKKILL that has not acted yet
    scripts_failed,     \* cold-start scripts of this cycle that exited with an error
    polls,              \* liveness polls of the current miner: 0, 1, 2 = more
    log,                \* what the supervisor did since the cycle's decision
    failed_probes,      \* probes of the current miner classified as a failure
    kill_on_dead,       \* the kill of this cycle was dispatched for a dead miner
    answered_by,        \* the miner that answered the probe just made, 0 = none
    call                \* a function called on its own: name, argument, result

vars == <<pc, elapsed, last_start_time, cold_start_needed, script_idx, hashrate_ok,
          current_hashrate, miner_process, running, taskkill, scripts_failed,
          polls, log, failed_probes, kill_on_dead, answered_by, call>>

\* no function is called on its own while the supervisor runs
NoCall == [f |-> "none", x |-> 0, y |-> 0]

Ev(e, n) == [e |-> e, n |-> n]

\* time.sleep(n) returns after at least n seconds
Jitter == 0 .. MaxJitter

is_alive == miner_process \in running

(* ---------------- What the status endpoint may answer ---------------- *)
TotalFirst ==
    { PyNone, PyNum(0), PyNum(-5), PyNum(target_hashrate - 1),
      PyNum(target_hashrate), PyNum(target_hashrate + 1), PyNaN,
      PyStr(<<"1", "2">>) }

Documents ==
    { PyDict(<<>>),
      PyList(<<PyNum(1)>>),
      PyDict([k \in {"version"} |-> PyStr(<<"x">>)]),
      PyDict([k \in {"hashrate"} |-> PyNone]),
      PyDict([k \in {"hashrate"} |-> PyDict(<<>>)]),
      PyDict([k \in {"hashrate"} |-> PyDict([j \in {"total"} |-> PyNone])]),
      PyDict([k \in {"hashrate"} |-> PyDict([j \in {"total"} |-> PyList(<<>>)])]) }
    \cup { PyDict([k \in {"hashrate"} |->
                    PyDict([j \in {"total"} |-> PyList(<<x, PyNone, PyNone>>)])])
           : x \in TotalFirst }

Responses ==
    { UrlError, HttpResponse(204, TRUE, PyDict(<<>>)), HttpResponse(200, FALSE, PyNone) }
    \cup { HttpResponse(200, TRUE, d) : d \in Documents }

(* ---------------- Supervisor: miner_keeper ---------------- *)
\* The supervisor is one thread; the miners and the TASKKILL commands run
\* beside it.  Its loop is cut into steps where they can act between two of
\* its statements: at every sleep and before every is_alive().
Init ==
    /\ pc = "decide"
    /\ elapsed = 0
    /\ last_start_time = "None"
    /\ cold_start_needed = FALSE
    /\ script_idx = 1
    /\ hashrate_ok = TRUE
    /\ current_hashrate = PyNone
    /\ miner_process = 0
    /\ running = {}
    /\ taskkill = {}
    /\ scripts_failed = {}
    /\ polls = 0
    /\ log = <<>>
    /\ failed_probes = 0
    /\ kill_on_dead = FALSE
    /\ answered_by = 0
    /\ call = NoCall

\* top of the while True loop: cold or hot
Decide ==
    /\ pc = "decide"
    /\ cold_start_needed' = needs_cold_start(last_start_time, elapsed)
    /\ pc' = IF cold_start_needed' /\ NumColdStartScripts > 0
             THEN "cold_start" ELSE "start_miner"
    /\ script_idx' = 1
    /\ log' = <<>>
    /\ kill_on_dead' = FALSE
    /\ UNCHANGED <<call, answered_by, failed_probes, elapsed, last_start_time, hashrate_ok, current_hashrate,
                   miner_process, running, taskkill, scripts_failed, polls>>

\* one turn of the for loop: Popen the script, not waited for, then sleep.
\* Popen raises (FileNotFoundError) when the program of the command cannot be
\* started; nothing catches it and miner_keeper ends.  A command that starts
\* and fails later (failed) is not noticed.
ColdStartScript ==
    /\ pc = "cold_start"
    /\ \/ /\ \E failed \in BOOLEAN, j \in Jitter :
                /\ scripts_failed' = IF failed THEN scripts_failed \cup {script_idx}
                                     ELSE scripts_failed
                /\ elapsed' = elapsed + colds_start_sleep_interval + j
          /\ log' = log \o <<Ev("script", script_idx),
                              Ev("sleep", colds_start_sleep_interval)>>
          /\ script_idx' = script_idx + 1
          /\ pc' = IF script_idx = NumColdStartScripts THEN "start_miner"
                   ELSE "cold_start"
       \/ /\ pc' = "crashed"
          /\ UNCHANGED <<scripts_failed, elapsed, log, script_idx>>
    /\ UNCHANGED <<call, answered_by, failed_probes, kill_on_dead, last_start_time, cold_start_needed, hashrate_ok, current_hashrate,
                   miner_process, running, taskkill, polls>>

\* miner_process = start_miner(...); last_start_time = now()
StartMiner ==
    /\ pc = "start_miner"
    /\ miner_process < MaxLaunches
    /\ miner_process' = miner_process + 1
    /\ running' = running \cup {miner_process + 1}
    /\ last_start_time' = "set"
    /\ elapsed' = 0
    /\ polls' = 0
    /\ scripts_failed' = {}
    /\ log' = Append(log, Ev("start", miner_process + 1))
    /\ failed_probes' = 0
    /\ pc' = "settle"
    /\ UNCHANGED <<call, answered_by, kill_on_dead, cold_start_needed, script_idx, hashrate_ok, current_hashrate, taskkill>>

\* mutant: the settle sleep left out
Settle_no_sleep ==
    /\ pc = "settle"
    /\ hashrate_ok' = TRUE
    /\ pc' = "while"
    /\ UNCHANGED <<call, answered_by, failed_probes, kill_on_dead, elapsed, last_start_time, cold_start_needed, script_idx,
                   current_hashrate, miner_process, running, taskkill, scripts_failed,
                   polls, log>>

\* time.sleep(initial_sleep_time_minutes * 60); hashrate_ok = True
Settle ==
    /\ pc = "settle"
    /\ \E j \in Jitter : elapsed' = elapsed + initial_sleep_time_minutes * 60 + j
    /\ hashrate_ok' = TRUE
    /\ log' = Append(log, Ev("sleep", initial_sleep_time_minutes * 60))
    /\ pc' = "while"
    /\ UNCHANGED <<call, answered_by, failed_probes, kill_on_dead, last_start_time, cold_start_needed, script_idx, current_hashrate,
                   miner_process, running, taskkill, scripts_failed, polls>>

\* mutant: the loop goes on after a failed probe
LoopGuard_ignores_health ==
    /\ pc = "while"
    /\ pc' = IF run_time_ended(elapsed, max_run_time_minutes)
             THEN "poll_sleep" ELSE "stop"
    /\ answered_by' = 0
    /\ UNCHANGED <<call, failed_probes, kill_on_dead, elapsed, last_start_time, cold_start_needed, script_idx, hashrate_ok,
                   current_hashrate, miner_process, running, taskkill, scripts_failed,
                   polls, log>>

\* mutant: the loop goes on while run_time_ended is False
LoopGuard_not_ended ==
    /\ pc = "while"
    /\ pc' = IF ~run_time_ended(elapsed, max_run_time_minutes) /\ hashrate_ok
             THEN "poll_sleep" ELSE "stop"
    /\ answered_by' = 0
    /\ UNCHANGED <<call, failed_probes, kill_on_dead, elapsed, last_start_time, cold_start_needed, script_idx, hashrate_ok,
                   current_hashrate, miner_process, running, taskkill, scripts_failed,
                   polls, log>>

\* while run_time_ended(last_start_time, max_run_time_minutes) and hashrate_ok:
\* (answered_by tells of the probe just made, and is cleared for the next turn)
LoopGuard ==
    /\ pc = "while"
    /\ pc' = IF run_time_ended(elapsed, max_run_time_minutes) /\ hashrate_ok
             THEN "poll_sleep" ELSE "stop"
    /\ answered_by' = 0
    /\ UNCHANGED <<call, failed_probes, kill_on_dead, elapsed, last_start_time, cold_start_needed, script_idx, hashrate_ok,
                   current_hashrate, miner_process, running, taskkill, scripts_failed,
                   polls, log>>

\* time.sleep(check_interval_seconds)
PollSleep ==
    /\ pc = "poll_sleep"
    /\ \E j \in Jitter :
          /\ elapsed + check_interval_seconds + j <= MaxElapsed
          /\ elapsed' = elapsed + check_interval_seconds + j
    /\ pc' = "check_alive"
    /\ UNCHANGED <<call, answered_by, failed_probes, kill_on_dead, last_start_time, cold_start_needed, script_idx, hashrate_ok,
                   current_hashrate, miner_process, running, taskkill, scripts_failed,
                   polls, log>>

\* mutant: the liveness check does not break out of the loop
CheckAlive_no_break ==
    /\ pc = "check_alive"
    /\ polls' = IF polls < 2 THEN polls + 1 ELSE polls
    /\ pc' = "probe"
    /\ log' = IF is_alive THEN log ELSE Append(log, Ev("dead", polls'))
    /\ UNCHANGED <<call, answered_by, failed_probes, kill_on_dead, elapsed, last_start_time, cold_start_needed, script_idx, hashrate_ok,
                   current_hashrate, miner_process, running, taskkill, scripts_failed>>

\* if not miner_process.is_alive(): break
CheckAlive ==
    /\ pc = "check_alive"
    /\ polls' = IF polls < 2 THEN polls + 1 ELSE polls
    /\ IF is_alive
       THEN /\ pc' = "probe"
            /\ log' = log
       ELSE /\ pc' = "stop"
            /\ log' = Append(log, Ev("dead", polls'))
    /\ UNCHANGED <<call, answered_by, failed_probes, kill_on_dead, elapsed, last_start_time, cold_start_needed, script_idx, hashrate_ok,
                   current_hashrate, miner_process, running, taskkill, scripts_failed>>

\* what get_hashrate returns for the answers of the status endpoint
ProbeResults == { get_hashrate(hashrate_api_params, response) : response \in Responses }

\* current_hashrate = get_hashrate(...) and the if / elif / else on it.  The
\* request blocks until the endpoint has answered: the timeout of urlopen
\* bounds each socket operation, not the request, so the code sets no bound
\* on the wait.  The endpoint is a fixed host and port: whichever running
\* miner holds the port answers, and something else or nothing when none does.
Probe ==
    /\ pc = "probe"
    /\ \E waited \in 0 .. (MaxElapsed - elapsed) : elapsed' = elapsed + waited
    /\ \E peer \in running \cup {0} : answered_by' = peer
    /\ \E hashrate \in ProbeResults :
          /\ current_hashrate' = hashrate
          /\ LET c == classify_hashrate(current_hashrate') IN
                /\ pc' = IF c = "TypeError" THEN "crashed" ELSE "while"
                /\ hashrate_ok' = IF c = "fail" THEN FALSE ELSE hashrate_ok
                /\ failed_probes' = IF c = "fail" THEN failed_probes + 1
                                    ELSE failed_probes
    /\ UNCHANGED <<call, kill_on_dead, last_start_time, cold_start_needed, script_idx,
                   miner_process, running, taskkill, scripts_failed, polls, log>>

\* mutant: the kill is dispatched whether the miner is alive or not
StopCheck_always_kill ==
    /\ pc = "stop"
    /\ pc' = "kill"
    /\ log' = Append(log, Ev("is_alive", IF is_alive THEN 1 ELSE 0))
    /\ UNCHANGED <<call, answered_by, failed_probes, kill_on_dead, elapsed, last_start_time, cold_start_needed, script_idx, hashrate_ok,
                   current_hashrate, miner_process, running, taskkill, scripts_failed,
                   polls>>

\* if miner_process.is_alive():
StopCheck ==
    /\ pc = "stop"
    /\ pc' = IF is_alive THEN "kill" ELSE "decide"
    /\ log' = Append(log, Ev("is_alive", IF is_alive THEN 1 ELSE 0))
    /\ UNCHANGED <<call, answered_by, failed_probes, kill_on_dead, elapsed, last_start_time, cold_start_needed, script_idx, hashrate_ok,
                   current_hashrate, miner_process, running, taskkill, scripts_failed,
                   polls>>

\* mutant: the kill of a process that is gone raises
Kill_raises_on_dead ==
    /\ pc = "kill"
    /\ taskkill' = taskkill \cup {miner_process}
    /\ log' = Append(log, Ev("kill", miner_process))
    /\ kill_on_dead' = ~is_alive
    /\ pc' = IF is_alive THEN "grace" ELSE "crashed"
    /\ UNCHANGED <<call, answered_by, failed_probes, elapsed, last_start_time, cold_start_needed, script_idx, hashrate_ok,
                   current_hashrate, miner_process, running, scripts_failed, polls>>

\* mutant: no sleep after the kill
Kill_no_grace ==
    /\ pc = "kill"
    /\ taskkill' = taskkill \cup {miner_process}
    /\ log' = Append(log, Ev("kill", miner_process))
    /\ kill_on_dead' = ~is_alive
    /\ pc' = "decide"
    /\ UNCHANGED <<call, answered_by, failed_probes, elapsed, last_start_time, cold_start_needed, script_idx, hashrate_ok,
                   current_hashrate, miner_process, running, scripts_failed, polls>>

\* kill(miner_process.pid): Popen of TASKKILL, not waited for
Kill ==
    /\ pc = "kill"
    /\ taskkill' = taskkill \cup {miner_process}
    /\ log' = Append(log, Ev("kill", miner_process))
    /\ kill_on_dead' = ~is_alive
    /\ pc' = "grace"
    /\ UNCHANGED <<call, answered_by, failed_probes, elapsed, last_start_time, cold_start_needed, script_idx, hashrate_ok,
                   current_hashrate, miner_process, running, scripts_failed, polls>>

\* time.sleep(process_exit_time_seconds)
Grace ==
    /\ pc = "grace"
    /\ \E j \in Jitter : elapsed' = elapsed + process_exit_time_seconds + j
    /\ log' = Append(log, Ev("sleep", process_exit_time_seconds))
    /\ pc' = "decide"
    /\ UNCHANGED <<call, answered_by, failed_probes, kill_on_dead, last_start_time, cold_start_needed, script_idx, hashrate_ok,
                   current_hashrate, miner_process, running, taskkill, scripts_failed,
                   polls>>

(* ---------------- The other processes ---------------- *)
\* a miner exits on its own (child.wait() returns and the wrapper ends)
MinerExits ==
    /\ \E w \in running : running' = running \ {w}
    /\ UNCHANGED <<call, answered_by, failed_probes, kill_on_dead, pc, elapsed, last_start_time, cold_start_needed, script_idx,
                   hashrate_ok, current_hashrate, miner_process, taskkill,
                   scripts_failed, polls, log>>

\* a dispatched TASKKILL /F /PID pid /T acts: the tree of pid, if any, is gone
TaskkillActs ==
    /\ \E p \in taskkill :
          /\ taskkill' = taskkill \ {p}
          /\ running' = running \ {p}
    /\ UNCHANGED <<call, answered_by, failed_probes, kill_on_dead, pc, elapsed, last_start_time, cold_start_needed, script_idx,
                   hashrate_ok, current_hashrate, miner_process, scripts_failed,
                   polls, log>>

Next ==
    \/ Decide
    \/ ColdStartScript
    \/ StartMiner
    \/ Settle
    \/ LoopGuard
    \/ PollSleep
    \/ CheckAlive
    \/ Probe
    \/ StopCheck
    \/ Kill
    \/ Grace
    \/ MinerExits
    \/ TaskkillActs

(* ---------------- A miner that has run for long ---------------- *)
\* what the supervisor did in the first n turns of the cold-start loop
ColdSequence(n) ==
    [k \in 1 .. 2 * n |->
        IF k % 2 = 1 THEN Ev("script", (k + 1) \div 2)
        ELSE Ev("sleep", colds_start_sleep_interval)]

\* around one day after the launch
DaySeconds == (SecondsPerDay - 2) .. (SecondsPerDay + 2)

LateSeconds == ((MaxElapsed + 1) .. LateElapsed) \cup DaySeconds

\* The loop guard reached with the first miner (a cold start) at a later time
\* than the polls are followed to, after a probe that found the miner healthy
\* or one that failed.
InitLate ==
    /\ pc = "while"
    /\ elapsed \in LateSeconds
    /\ last_start_time = "set"
    /\ cold_start_needed = TRUE
    /\ script_idx = NumColdStartScripts + 1
    /\ \/ /\ hashrate_ok = TRUE
          /\ current_hashrate = PyNum(target_hashrate)
          /\ failed_probes = 0
          /\ answered_by = 1
       \/ /\ hashrate_ok = FALSE
          /\ current_hashrate = PyNum(-1)
          /\ failed_probes = 1
          /\ answered_by = 0
    /\ miner_process = 1
    /\ running = {1}
    /\ taskkill = {}
    /\ scripts_failed = {}
    /\ polls \in {1, 2}
    /\ log = ColdSequence(NumColdStartScripts)
                \o <<Ev("start", 1), Ev("sleep", initial_sleep_time_minutes * 60)>>
    /\ kill_on_dead = FALSE
    /\ call = NoCall

Spec == (Init \/ InitLate) /\ [][Next]_vars


(* ---------------- The cold/hot decision on its own ---------------- *)
\* the shortest time from a launch to the next decision: the settle sleep
\* and one poll sleep
MinCycleSeconds == initial_sleep_time_minutes * 60 + check_interval_seconds

\* seconds parts around the start of a day, the threshold and the end of a day
PolicySeconds ==
    (0 .. hot_restart_interval_minutes * 60 + 5)
        \cup ((SecondsPerDay - 5) .. (SecondsPerDay - 1))

PolicyElapsed ==
    { e \in { d * SecondsPerDay + sec : d \in 0 .. MaxDays, sec \in PolicySeconds } :
        e >= MinCycleSeconds }

\* the supervisor at the top of its loop: before the first launch, or with a
\* launch `elapsed` seconds ago
InitPolicy ==
    /\ pc = "decide"
    /\ \/ last_start_time = "None" /\ elapsed = 0 /\ miner_process = 0
       \/ last_start_time = "set" /\ elapsed \in PolicyElapsed /\ miner_process = 1
    /\ cold_start_needed = FALSE
    /\ script_idx = 1
    /\ hashrate_ok = TRUE
    /\ current_hashrate = PyNone
    /\ running = {}
    /\ taskkill = {}
    /\ scripts_failed = {}
    /\ polls = 1
    /\ log = <<>>
    /\ failed_probes = 0
    /\ kill_on_dead = FALSE
    /\ answered_by = 0
    /\ call = NoCall

NextPolicy == Decide

SpecPolicy == InitPolicy /\ [][NextPolicy]_vars

(* ---------------- The functions called on their own ---------------- *)
CastHashRates ==
    { PyNum(2000000), PyNum(target_hashrate * 1000), PyNum(1500), PyNum(1),
      PyNum(0), PyNum(-5), PyNone, PyStr(<<"7">>), PyList(<<>>),
      PyMilli(1500500), PyMilli(500), PyMilli(-500), PyMilli(11499999),
      PyMilli(9), PyHuge, PyNaN }

CastDocuments ==
    { PyDict([k \in {"total_hash_rate"} |-> h]) : h \in CastHashRates }

\* first elements of hashrate.total that are not null and count as false
FalsyFirst == { PyNum(0), PyStr(<<>>), PyList(<<>>), PyDict(<<>>) }

StakDocuments ==
    { PyDict([k \in {"hashrate"} |->
               PyDict([j \in {"total"} |-> PyList(<<x, PyNone, PyNone>>)])])
      : x \in FalsyFirst \cup {PyNum(1222), PyMilli(1222300), PyHuge} }
    \cup { PyDict([k \in {"hashrate"} |-> PyNum(5)]),
           PyDict([k \in {"hashrate"} |-> PyDict([j \in {"total"} |-> PyNum(5)])]),
           PyDict([k \in {"hashrate"} |->
                    PyDict([j \in {"total"} |-> PyStr(<<"9", "8">>)])]),
           PyDict([k \in {"hashrate"} |->
                    PyDict([j \in {"total"} |->
                             PyDict([i \in {"0"} |-> PyNum(7)])])]) }

AllDocuments == Documents \cup CastDocuments \cup StakDocuments

AllResponses ==
    Responses \cup { HttpResponse(200, TRUE, d) : d \in AllDocuments }
        \cup { HttpResponse(code, TRUE, d) :
                 code \in {204, 404}, d \in {PyDict(<<>>), PyList(<<PyNum(1)>>)} }

Apis == { xmr_stak_api, cast_xmr_api }

\* elapsed times around a minute, max_run_time_minutes and the turn of a day
RunTimeSeconds ==
    (0 .. 2) \cup (59 .. 61) \cup (max_run_time_minutes * 60 - 1 .. max_run_time_minutes * 60 + 1)
        \cup ((SecondsPerDay - 1) .. (SecondsPerDay - 1))

RunTimeElapsed ==
    { d * SecondsPerDay + sec : d \in 0 .. MaxDays, sec \in RunTimeSeconds }

Calls ==
    { [f |-> "get_hashrate", x |-> <<a, r>>, y |-> 0] : a \in Apis, r \in AllResponses }
    \cup { [f |-> "parse_castxmr_hashrate", x |-> d, y |-> 0] : d \in AllDocuments }
    \cup { [f |-> "parse_xmrstak_hashrate", x |-> d, y |-> 0] : d \in AllDocuments }
    \cup { [f |-> "run_time_ended", x |-> <<e, m>>, y |-> 0] :
             e \in RunTimeElapsed, m \in {max_run_time_minutes, 30} }

InitCalls ==
    /\ pc = "call"
    /\ call \in Calls
    /\ elapsed = 0
    /\ last_start_time = "None"
    /\ cold_start_needed = FALSE
    /\ script_idx = 1
    /\ hashrate_ok = TRUE
    /\ current_hashrate = PyNone
    /\ miner_process = 0
    /\ running = {}
    /\ taskkill = {}
    /\ scripts_failed = {}
    /\ polls = 0
    /\ log = <<>>
    /\ failed_probes = 0
    /\ kill_on_dead = FALSE
    /\ answered_by = 0

Returned(f, y) ==
    /\ pc = "call"
    /\ call.f = f
    /\ call' = [call EXCEPT !.y = y]
    /\ pc' = "return"
    /\ UNCHANGED <<elapsed, last_start_time, cold_start_needed, script_idx, hashrate_ok,
                   current_hashrate, miner_process, running, taskkill, scripts_failed,
                   polls, log, failed_probes, kill_on_dead, answered_by>>

CallGetHashrate == Returned("get_hashrate", get_hashrate(call.x[1], call.x[2]))
CallParseCastxmr == Returned("parse_castxmr_hashrate", parse_castxmr_hashrate(call.x))
CallParseXmrstak == Returned("parse_xmrstak_hashrate", parse_xmrstak_hashrate(call.x))
CallRunTimeEnded == Returned("run_time_ended", run_time_ended(call.x[1], call.x[2]))

NextCalls ==
    \/ CallGetHashrate
    \/ CallParseCastxmr
    \/ CallParseXmrstak
    \/ CallRunTimeEnded

SpecCalls == InitCalls /\ [][NextCalls]_vars

(* ---------------- Claims ---------------- *)
HasEvent(e) == \E k \in 1 .. Len(log) : log[k].e = e
EventIndex(e) == CHOOSE k \in 1 .. Len(log) : log[k].e = e

\* C1: a miner that stays alive and healthy is not monitored past its max run
\* time: the loop does not begin another poll once more than
\* max_run_time_minutes have elapsed since the launch.
C1_PeriodicCycling ==
    (pc = "poll_sleep" /\ hashrate_ok) => elapsed <= max_run_time_minutes * 60

\* C2: the start is cold when there is no previous start or when less than
\* hot_restart_interval_minutes have elapsed since the previous launch, and
\* hot for every longer elapsed time, however long.
C2_ColdHotDecision ==
    pc \in {"cold_start", "start_miner"} =>
        (cold_start_needed <=>
            (last_start_time = "None" \/ elapsed < hot_restart_interval_minutes * 60))

\* C3: at most one miner launched by the supervisor is running.
C3_NoOverlap == Cardinality(running) <= 1

\* C4: a probe value v is classified OK, and monitoring goes on, iff
\* v >= target_hashrate; it is a health failure, and the loop is left for the
\* stop step, iff v <= 0 or 0 < v < target_hashrate.  (An order comparison
\* holds of numbers only, and none holds of nan.)
\* x >= n for a number x and a whole number n
AtLeast(x, n) == x.t # "nan" /\ ~LessThan(x, n)

C4_HealthClassification ==
    [][ /\ (pc = "probe" /\ pc' # "probe") =>
              LET v == current_hashrate'
                  number == IsNumber(v)
                  classified_ok == pc' = "while" /\ hashrate_ok'
                  classified_fail == pc' = "while" /\ ~hashrate_ok'
              IN /\ classified_ok <=> (number /\ AtLeast(v, target_hashrate))
                 /\ classified_fail <=>
                       (number /\ (LessOrEqual(v, 0)
                                     \/ (Positive(v) /\ LessThan(v, target_hashrate))))
                 /\ log' = log
                 /\ taskkill' = taskkill
        /\ (pc = "while" /\ pc' # "while" /\ polls > 0) =>
              IF hashrate_ok
              THEN timedelta_seconds(elapsed) > 0 => pc' = "poll_sleep"
              ELSE pc' = "stop"
      ]_vars

\* C5: the liveness polls and health probes of a miner come only after its
\* launch, the recording of the start time and the full settle sleep.
C5_SettleBeforeProbe ==
    pc \in {"while", "poll_sleep", "check_alive", "probe"} =>
        /\ Len(log) >= 2
        /\ log[Len(log) - 1] = Ev("start", miner_process)
        /\ log[Len(log)] = Ev("sleep", initial_sleep_time_minutes * 60)
        /\ elapsed >= initial_sleep_time_minutes * 60
        /\ pc \in {"check_alive", "probe"} =>
              elapsed >= initial_sleep_time_minutes * 60 + check_interval_seconds

C5_Witness == pc = "probe" /\ polls = 1

\* C6: in a cold cycle every cold-start script is dispatched once, in order,
\* each followed by the sleep, and the sequence is completed before the launch
\* whether or not a script succeeded: a cycle that has not launched yet is on
\* its way to the launch.  In a hot cycle nothing is dispatched before the
\* launch.
C6_ColdStartSequence ==
    /\ pc = "cold_start" =>
          /\ cold_start_needed
          /\ script_idx \in 1 .. NumColdStartScripts
          /\ log = ColdSequence(script_idx - 1)
    /\ pc = "start_miner" =>
          log = IF cold_start_needed THEN ColdSequence(NumColdStartScripts) ELSE <<>>
    /\ HasEvent("start") =>
          SubSeq(log, 1, EventIndex("start") - 1) =
              IF cold_start_needed THEN ColdSequence(NumColdStartScripts) ELSE <<>>
    /\ ~HasEvent("start") => pc \in {"decide", "cold_start", "start_miner"}

\* C7: a poll that finds the miner not alive leaves the monitoring loop at
\* once, with no probe in that iteration, whatever the elapsed time and the
\* earlier probes.
C7_DeathLeavesMonitoring ==
    [][ (pc = "check_alive" /\ ~is_alive /\ pc' # "check_alive") =>
            /\ pc' = "stop"
            /\ current_hashrate' = current_hashrate
            /\ hashrate_ok' = hashrate_ok
            /\ elapsed' = elapsed
      ]_vars

C7_Witness ==
    /\ pc = "stop"
    /\ Len(log) > 0
    /\ log[Len(log)].e = "dead"
    /\ hashrate_ok

\* C8: after monitoring, the kill is dispatched iff the miner is alive at that
\* point, and then the grace sleep is completed before the next decision; a
\* miner found dead gets neither the kill nor the sleep.
C8_StoppingStep ==
    IF HasEvent("is_alive")
    THEN LET k == EventIndex("is_alive")
             rest == SubSeq(log, k + 1, Len(log))
         IN IF log[k].n = 1
            THEN \/ pc = "kill" /\ rest = <<>>
                 \/ pc = "grace" /\ rest = <<Ev("kill", miner_process)>>
                 \/ /\ pc = "decide"
                    /\ rest = <<Ev("kill", miner_process),
                                Ev("sleep", process_exit_time_seconds)>>
            ELSE pc = "decide" /\ rest = <<>>
    ELSE /\ pc \notin {"kill", "grace"}
         /\ ~HasEvent("kill")
         /\ pc = "decide" => last_start_time = "None"

C8_Witness ==
    /\ pc = "decide"
    /\ HasEvent("kill")
    /\ log[Len(log)] = Ev("sleep", process_exit_time_seconds)

\* C9: a miner found dead at its first liveness poll is not waited for until
\* the max run time, gets no kill, and the next start is cold.
C9_CrashDuringSettle ==
    [][ (pc = "decide" /\ pc' # "decide" /\ HasEvent("dead")
            /\ log[EventIndex("dead")].n = 1) =>
            /\ cold_start_needed'
            /\ pc' = "cold_start"
            /\ ~HasEvent("kill")
            /\ log[Len(log)] = Ev("is_alive", 0)
            /\ elapsed < max_run_time_minutes * 60
      ]_vars

C9_Witness ==
    /\ pc = "decide"
    /\ HasEvent("dead")
    /\ log[EventIndex("dead")].n = 1

\* C10: the supervisor has no fatal path: whatever the status endpoint
\* answers, it does not crash.
C10_NoFatalPath == pc # "crashed"


\* C11: get_hashrate raises nothing, and returns -1 for a network error or
\* timeout, a status other than 200, a body that is no JSON, an empty document,
\* a document without the expected keys and an exception of the parser.
MissingKeys(api_params, doc) ==
    /\ doc.t = "dict"
    /\ IF api_params.parse_function = "parse_xmrstak_hashrate"
       THEN \/ "hashrate" \notin DOMAIN doc.v
            \/ /\ doc.v["hashrate"].t = "dict"
               /\ "total" \notin DOMAIN doc.v["hashrate"].v
       ELSE "total_hash_rate" \notin DOMAIN doc.v

FailedFetch(api_params, response) ==
    \/ response.t = "urlerror"
    \/ response.code # 200
    \/ ~response.json
    \/ response.doc = PyDict(<<>>)
    \/ MissingKeys(api_params, response.doc)
    \/ parse_function(api_params, response.doc).raised

C11_ProberTotality ==
    (pc = "return" /\ call.f = "get_hashrate") =>
        /\ call.y.t # "exception"
        /\ FailedFetch(call.x[1], call.x[2]) => call.y = PyNum(-1)

C11_Witness ==
    /\ pc = "return"
    /\ call.f = "get_hashrate"
    /\ call.x[1] = cast_xmr_api
    /\ call.x[2].t = "http" /\ call.x[2].code = 200 /\ call.x[2].json
    /\ parse_function(call.x[1], call.x[2].doc).raised
    /\ call.y = PyNum(-1)


\* C12: parse_castxmr_hashrate gives h / 1000 for a total_hash_rate that is a
\* number h > 0 (2000000 gives 2000), h itself for h <= 0 (-5 gives -5, which
\* is classified as a failure), and -1 when the field is absent.
\* the number h of which x is the quotient h / 1000
Dividend(x) ==
    CASE x.t = "num" -> PyNum(x.v * 1000)
      [] x.t = "dec" -> IF x.v[2] = 1 THEN PyNum(x.v[1])
                        ELSE PyDec(x.v[1], x.v[2] - 1)
      [] x.t = "quotient" -> IF x.v[3] = 1 THEN PyDec(x.v[1], x.v[2])
                             ELSE PyQuotient(x.v[1], x.v[2], x.v[3] - 1)

Scaled(h, y) ==
    /\ ~y.raised
    /\ IsNumber(y.val)
    /\ Positive(h) => Dividend(y.val) = h
    /\ h = PyNum(2000000) => y.val = PyNum(2000)
    /\ LessOrEqual(h, 0) => /\ y.val = h
                             /\ classify_hashrate(y.val) = "fail"

C12_ParserA ==
    (pc = "return" /\ call.f = "parse_castxmr_hashrate" /\ call.x.t = "dict") =>
        IF "total_hash_rate" \notin DOMAIN call.x.v
        THEN call.y = Return(PyNum(-1))
        ELSE LET h == call.x.v["total_hash_rate"] IN
             IsNumber(h) => Scaled(h, call.y)

\* C12, as the code has it: the same, except that for an int h so large that
\* h / 1000 is beyond the floats the division raises OverflowError.
C12_ParserA_FloatRange ==
    (pc = "return" /\ call.f = "parse_castxmr_hashrate" /\ call.x.t = "dict") =>
        IF "total_hash_rate" \notin DOMAIN call.x.v
        THEN call.y = Return(PyNum(-1))
        ELSE LET h == call.x.v["total_hash_rate"] IN
             IsNumber(h) => IF h = PyHuge THEN call.y.raised
                            ELSE Scaled(h, call.y)

C12_Witness ==
    /\ pc = "return"
    /\ call.f = "parse_castxmr_hashrate"
    /\ call.x = PyDict([k \in {"total_hash_rate"} |-> PyHuge])
    /\ call.y.raised

\* C13: parse_xmrstak_hashrate gives the first element of hashrate.total when
\* that element is present and not null, and -1, without an exception, when
\* hashrate is missing or null, when total is missing, null or empty, and when
\* the first element is null.
HasField(x, key) == x.t = "dict" /\ key \in DOMAIN x.v

HasTotal(doc) == HasField(doc, "hashrate") /\ HasField(doc.v["hashrate"], "total")

Total(doc) == doc.v["hashrate"].v["total"]

HasFirst(doc) ==
    /\ HasTotal(doc)
    /\ Total(doc).t \in {"list", "str"}
    /\ Len(Total(doc).v) > 0

First(doc) == Subscript0(Total(doc)).val

NothingToRead(doc) ==
    \/ doc.t = "dict" /\ "hashrate" \notin DOMAIN doc.v
    \/ HasField(doc, "hashrate") /\ doc.v["hashrate"] = PyNone
    \/ HasField(doc, "hashrate") /\ doc.v["hashrate"].t = "dict"
          /\ "total" \notin DOMAIN doc.v["hashrate"].v
    \/ HasTotal(doc) /\ Total(doc) \in {PyNone, PyList(<<>>), PyStr(<<>>)}
    \/ HasFirst(doc) /\ First(doc) = PyNone

C13_ParserB ==
    (pc = "return" /\ call.f = "parse_xmrstak_hashrate") =>
        /\ (HasFirst(call.x) /\ First(call.x) # PyNone) => call.y = First(call.x)
        /\ NothingToRead(call.x) => call.y = PyNum(-1)

\* C13, as the code has it: the result is total[0], for the total of
\* hashrate, when total is a non-empty list or a non-empty string (of which
\* total[0] is the first character) and total[0] counts as true (not null,
\* not 0, not an empty string, list or dict), and -1 for every other document.
C13_ParserB_Truthy ==
    (pc = "return" /\ call.f = "parse_xmrstak_hashrate") =>
        IF HasFirst(call.x) /\ Truthy(First(call.x))
        THEN call.y = First(call.x)
        ELSE call.y = PyNum(-1)

C13_Witness ==
    /\ pc = "return"
    /\ call.f = "parse_xmrstak_hashrate"
    /\ HasFirst(call.x)
    /\ First(call.x) = PyNum(0)
    /\ call.y = PyNum(-1)

\* C15: run_time_ended is True exactly when the minutes elapsed since
\* last_start_time are more than max_run_time_minutes.
C15_RunTimeEnded ==
    (pc = "return" /\ call.f = "run_time_ended") =>
        (call.y <=> call.x[1] > call.x[2] * 60)


C16_NoPrematureCycling ==
    [][ /\ pc' = "kill" =>
              \/ failed_probes' >= 1
              \/ elapsed' > max_run_time_minutes * 60
        /\ (pc = "while" /\ pc' # pc /\ failed_probes = 0
               /\ elapsed <= max_run_time_minutes * 60) => pc' = "poll_sleep"
        /\ (pc = "poll_sleep" /\ pc' # pc) => pc' = "check_alive"
        /\ (pc = "check_alive" /\ pc' # pc /\ is_alive) => pc' = "probe"
        /\ (pc = "probe" /\ pc' # pc /\ classify_hashrate(current_hashrate') = "ok") =>
              pc' = "while" /\ failed_probes' = failed_probes
      ]_vars

C16_Witness ==
    /\ pc = "kill"
    /\ failed_probes = 0
    /\ hashrate_ok
    /\ elapsed > max_run_time_minutes * 60

\* C17: after the first launch the handle and last_start_time are those of the
\* most recently launched miner: a launch replaces the handle and sets the
\* launch time, nothing else changes them, every kill is for the miner of the
\* handle, a probe classified as a health failure was not answered by a miner
\* of an earlier cycle, and the cold/hot decision is taken on the time since
\* that launch.
C17_HandleFreshness ==
    [][ /\ miner_process' # miner_process =>
              /\ pc = "start_miner"
              /\ miner_process' = miner_process + 1
              /\ running' = running \cup {miner_process'}
              /\ log'[Len(log')] = Ev("start", miner_process')
              /\ elapsed' = 0
              /\ last_start_time' = "set"
        /\ (pc = "start_miner" /\ pc' # pc) => miner_process' # miner_process
        /\ elapsed' < elapsed => miner_process' # miner_process
        /\ last_start_time' # last_start_time => miner_process' # miner_process
        /\ running' \subseteq 1 .. miner_process'
        /\ (pc = "kill" /\ pc' # pc) =>
              /\ taskkill' = taskkill \cup {miner_process}
              /\ log'[Len(log')] = Ev("kill", miner_process)
        /\ (pc = "probe" /\ pc' = "while" /\ ~hashrate_ok') =>
              answered_by' \notin 1 .. (miner_process - 1)
        /\ (pc = "decide" /\ pc' # pc) =>
              cold_start_needed' = needs_cold_start(last_start_time, elapsed)
        /\ (pc' = "while" /\ polls' = 0) =>
              elapsed' <= initial_sleep_time_minutes * 60 + MaxJitter
      ]_vars

\* C18: at most one probe of a miner is classified as a failure: after it no
\* poll and no probe is made for that miner, and a probe is made only for the
\* miner launched last, after its settle sleep.
C18_OneFailedProbe ==
    /\ failed_probes <= 1
    /\ failed_probes >= 1 => pc \notin {"poll_sleep", "check_alive", "probe"}
    /\ pc = "probe" =>
          /\ HasEvent("start")
          /\ log[EventIndex("start")].n = miner_process
          /\ EventIndex("start") < Len(log)
          /\ log[EventIndex("start") + 1] = Ev("sleep", initial_sleep_time_minutes * 60)

C18_Witness ==
    /\ pc = "kill"
    /\ failed_probes = 1
    /\ ~hashrate_ok

\* C19: a launch after the first comes after the previous miner was seen not
\* alive, or after a kill dispatched for it and the whole grace sleep; the
\* supervisor does not launch when it last saw the previous miner alive and
\* dispatched no kill.
Released ==
    \/ log[Len(log)] = Ev("is_alive", 0)
    \/ /\ Len(log) >= 3
       /\ log[Len(log) - 2] = Ev("is_alive", 1)
       /\ log[Len(log) - 1] = Ev("kill", miner_process)
       /\ log[Len(log)] = Ev("sleep", process_exit_time_seconds)

C19_NoLaunchWithoutRelease ==
    [][ /\ (pc' = "decide" /\ pc # "decide") =>
              /\ pc \in {"stop", "grace"}
              /\ Len(log') >= 1
              /\ Released'
              /\ pc = "grace" => elapsed' >= elapsed + process_exit_time_seconds
        /\ (pc' \in {"cold_start", "start_miner"} /\ pc' # pc) =>
              pc \in {"decide", "cold_start"}
        /\ miner_process' # miner_process => pc = "start_miner"
      ]_vars

C19_Witness ==
    /\ pc = "settle"
    /\ miner_process = 2
    /\ log[Len(log)] = Ev("start", 2)

====
